---- MODULE Spec2Model ----
(***************************************************************************)
(* Model of tools/make-standard-json.py: the reconstruction of a Solidity  *)
(* standard-JSON input from a build artifact.                              *)
(*                                                                         *)
(* Strings are sequences of one-character strings.  A Python dict is a     *)
(* sequence of <<key, value>> pairs with pairwise distinct keys, in        *)
(* insertion order (the order dict iteration and json.dumps follow).       *)
(***************************************************************************)
EXTENDS Integers, Sequences, FiniteSets, TLC

VARIABLES
    pc,          \* position of the run
    err,         \* the uncaught exception that ended the run, or NoError
    disk,        \* the source files under ROOT: path -> text, or Absent
    metaSources, \* the keys of metadata["sources"], in dict order
    sources,     \* dict path -> content built by read_sources
    remaps,      \* list of (alias, target) rules
    remapsP,     \* the same rules in another order
    items,       \* the items the inner loop of expand_alias_sources iterates
    expanded,    \* the growing dict of expand_alias_sources
    expandedP,   \* result of expand_alias_sources for remapsP
    ri,          \* index of the rule the outer loop is at
    si,          \* index of the item the inner loop is at
    wrapped,     \* the "sources" field of the standard document
    config,      \* the text of foundry.toml, or Absent
    configPlain, \* the same remappings written without comments or trailing comma
    entries,     \* the "alias=target" strings the config was written from
    parsed,      \* outcome of parse_remappings on config
    parsedPlain, \* outcome of parse_remappings on configPlain
    heap,        \* the dict and list objects in memory, by address
    settings,    \* metadata["settings"]: a reference into heap
    sanitized,   \* what sanitize_settings returned: a reference into heap
    settingsBefore, \* the value of metadata["settings"] when it was loaded
    mutations,   \* number of later writes to the sanitized copy
    artifact,    \* what the artifact file is: see ArtifactKinds
    settingsText, \* the text of metadata.settings in the artifact file
    language,    \* metadata["language"] once loaded
    output,      \* the output file: [exists, content]
    outDir,      \* whether the parent directory of the output file exists
    outputBefore, \* the output file when the run started
    printed,     \* whether this run printed its success message
    runs,        \* number of the run under way
    firstOutput  \* the output file at the end of the first run

expandVars == <<disk, metaSources, sources, remaps, remapsP, items, expanded,
                expandedP, ri, si, wrapped>>

parseVars == <<config, configPlain, entries, parsed, parsedPlain>>

heapVars == <<heap, settings, sanitized, settingsBefore, mutations>>

mainVars == <<artifact, settingsText, language, output, outDir, outputBefore,
              printed, runs, firstOutput>>

vars == <<pc, err, expandVars, parseVars, heapVars, mainVars>>

----------------------------------------------------------------------------
(* Bounds *)

MaxRules == 2
MaxSources == 2

----------------------------------------------------------------------------
(* Strings and dicts *)

Drop(s, n) == SubSeq(s, n + 1, Len(s))

\* str.startswith with the prefix test replaced by a substring test
startswithAnywhere(s, t) ==
    \E k \in 0..(Len(s) - Len(t)) : SubSeq(s, k + 1, k + Len(t)) = t

startswith(s, t) == Len(t) <= Len(s) /\ SubSeq(s, 1, Len(t)) = t

Keys(d) == {d[i][1] : i \in 1..Len(d)}

Has(d, k) == \E i \in 1..Len(d) : d[i][1] = k

Get(d, k) == d[CHOOSE i \in 1..Len(d) : d[i][1] = k][2]

\* d[k] = v on a dict: replaces the value in place, or appends a new pair
Put(d, k, v) ==
    IF Has(d, k)
    THEN [i \in 1..Len(d) |-> IF d[i][1] = k THEN <<k, v>> ELSE d[i]]
    ELSE Append(d, <<k, v>>)

SeqsUpTo(S, n) == UNION {[1..m -> S] : m \in 0..n}

NoError == <<"none">>

Absent == <<"no such file">>

NoLanguage == "none"

EmptyDocument == [language |-> NoLanguage, sources |-> <<>>, settings |-> <<>>]

\* no output file
AbsentFile == [exists |-> FALSE, content |-> EmptyDocument]

\* outcome of a call not made yet
NotRun == [ok |-> FALSE, val |-> <<>>, err |-> NoError]

----------------------------------------------------------------------------
(* read_sources *)

MissingError(path) == <<"FileNotFoundError", "Source file missing on disk: ", path>>

\* the loop of read_sources without the test for a missing file
RECURSIVE ReadFromNoCheck(_, _, _, _)
ReadFromNoCheck(keys, files, acc, i) ==
    IF i > Len(keys)
    THEN [ok |-> TRUE, val |-> acc, err |-> NoError]
    ELSE ReadFromNoCheck(keys, files,
             Put(acc, keys[i], IF files[keys[i]] = Absent THEN <<>> ELSE files[keys[i]]),
             i + 1)

RECURSIVE ReadFrom(_, _, _, _)
ReadFrom(keys, files, acc, i) ==
    IF i > Len(keys)
    THEN [ok |-> TRUE, val |-> acc, err |-> NoError]
    ELSE IF files[keys[i]] = Absent
         THEN [ok |-> FALSE, val |-> <<>>, err |-> MissingError(keys[i])]
         ELSE ReadFrom(keys, files, Put(acc, keys[i], files[keys[i]]), i + 1)

\* read_sources that takes a missing file for an empty one
read_sources_unchecked(keys, files) == ReadFromNoCheck(keys, files, <<>>, 1)

read_sources(keys, files) == ReadFrom(keys, files, <<>>, 1)

----------------------------------------------------------------------------
(* parse_remappings *)

\* The word "remappings" is the single character RWord of a config text.
RWord == "R"
NL == "\n"
Quote == "\""

\* what \s and str.strip() take for whitespace, among the characters used
Ws == {" ", NL}

Fail(e) == [ok |-> FALSE, val |-> <<>>, err |-> e]

Ok(v) == [ok |-> TRUE, val |-> v, err |-> NoError]

\* least index from i on that holds no whitespace (Len + 1 if none)
RECURSIVE SkipWs(_, _)
SkipWs(t, i) == IF i <= Len(t) /\ t[i] \in Ws THEN SkipWs(t, i + 1) ELSE i

\* least index from i on that holds c, or 0
RECURSIVE Find(_, _, _)
Find(t, c, i) ==
    IF i > Len(t) THEN 0 ELSE IF t[i] = c THEN i ELSE Find(t, c, i + 1)

\* remappings\s*=\s*\[(.*?)\] matched at position i: the group, or no match
MatchAt(t, i) ==
    IF t[i] # RWord THEN Fail(NoError)
    ELSE LET j == SkipWs(t, i + 1)
         IN  IF j > Len(t) \/ t[j] # "=" THEN Fail(NoError)
             ELSE LET k == SkipWs(t, j + 1)
                  IN  IF k > Len(t) \/ t[k] # "[" THEN Fail(NoError)
                      ELSE LET m == Find(t, "]", k + 1)
                           IN  IF m = 0 THEN Fail(NoError)
                               ELSE Ok(SubSeq(t, k + 1, m - 1))

\* re.search: the match at the least position that has one (line 43)
RECURSIVE Search(_, _)
Search(t, i) ==
    IF i > Len(t) THEN Fail(NoError)
    ELSE IF MatchAt(t, i).ok THEN MatchAt(t, i) ELSE Search(t, i + 1)

\* str.splitlines()
RECURSIVE SplitLinesFrom(_, _, _, _)
SplitLinesFrom(t, i, cur, acc) ==
    IF i > Len(t)
    THEN IF cur = <<>> THEN acc ELSE Append(acc, cur)
    ELSE IF t[i] = NL
         THEN SplitLinesFrom(t, i + 1, <<>>, Append(acc, cur))
         ELSE SplitLinesFrom(t, i + 1, Append(cur, t[i]), acc)

splitlines(t) == SplitLinesFrom(t, 1, <<>>, <<>>)

\* line.split("#", 1)[0]
BeforeHash(line) ==
    LET h == Find(line, "#", 1)
    IN  IF h = 0 THEN line ELSE SubSeq(line, 1, h - 1)

RECURSIVE LastNonWs(_, _)
LastNonWs(t, i) == IF i >= 1 /\ t[i] \in Ws THEN LastNonWs(t, i - 1) ELSE i

\* str.strip()
strip(t) == SubSeq(t, SkipWs(t, 1), LastNonWs(t, Len(t)))

\* the cleaning of one line (lines 50-55): the entry, or <<>> for a skipped line
\* (an entry is a sequence holding the cleaned line)
CleanLine(line) ==
    LET l == strip(BeforeHash(line))
    IN  IF l = <<>> THEN <<>>
        ELSE IF l[Len(l)] = "," THEN <<SubSeq(l, 1, Len(l) - 1)>> ELSE <<l>>

RECURSIVE CleanLines(_, _, _)
CleanLines(lines, i, acc) ==
    IF i > Len(lines) THEN acc
    ELSE CleanLines(lines, i + 1, acc \o CleanLine(lines[i]))

\* ",".join(entries)
RECURSIVE Join(_, _)
Join(es, i) ==
    IF i > Len(es) THEN <<>>
    ELSE IF i = Len(es) THEN es[i]
    ELSE es[i] \o <<",">> \o Join(es, i + 1)

\* least index from i on where a """ begins, or 0
RECURSIVE FindTriple(_, _)
FindTriple(t, i) ==
    IF i + 2 > Len(t) THEN 0
    ELSE IF t[i] = Quote /\ t[i + 1] = Quote /\ t[i + 2] = Quote THEN i
    ELSE FindTriple(t, i + 1)

\* the string literal that opens at the quote at j: [ok, val, next index];
\* """ opens a triple-quoted one
StringAt(t, j) ==
    IF j + 2 <= Len(t) /\ t[j + 1] = Quote /\ t[j + 2] = Quote
    THEN LET e == FindTriple(t, j + 3)
         IN  IF e = 0 THEN [ok |-> FALSE, val |-> <<>>, next |-> 0]
             ELSE [ok |-> TRUE, val |-> SubSeq(t, j + 3, e - 1), next |-> e + 3]
    ELSE LET e == Find(t, Quote, j + 1)
         IN  IF e = 0 THEN [ok |-> FALSE, val |-> <<>>, next |-> 0]
             ELSE [ok |-> TRUE, val |-> SubSeq(t, j + 1, e - 1), next |-> e + 1]

\* ast.literal_eval on "[" + body + "]", body holding no bracket: a list of
\* double-quoted strings (adjacent ones concatenated), separated by commas,
\* a last comma allowed; anything else is no list of strings.
\* st: "item" where an item or the end may come, "after" behind an item.
RECURSIVE EvalList(_, _, _, _)
EvalList(t, i, st, acc) ==
    LET j == SkipWs(t, i)
    IN  IF j > Len(t)
        THEN Ok(acc)
        ELSE IF t[j] = Quote
             THEN LET str == StringAt(t, j)
                  IN  IF ~str.ok THEN Fail(<<"SyntaxError">>)
                      ELSE IF st = "after"
                           THEN EvalList(t, str.next, "after",
                                    [acc EXCEPT ![Len(acc)] = @ \o str.val])
                           ELSE EvalList(t, str.next, "after", Append(acc, str.val))
             ELSE IF t[j] = "," /\ st = "after"
                  THEN EvalList(t, j + 1, "item", acc)
                  ELSE Fail(<<"SyntaxError">>)

literal_eval(body) == EvalList(body, 1, "item", <<>>)

\* alias, target = item.split("=", 1) for every item (lines 65-67)
RECURSIVE SplitItems(_, _, _)
SplitItems(its, i, acc) ==
    IF i > Len(its) THEN Ok(acc)
    ELSE LET e == Find(its[i], "=", 1)
         IN  IF e = 0 THEN Fail(<<"ValueError">>)
             ELSE SplitItems(its, i + 1,
                      Append(acc, <<SubSeq(its[i], 1, e - 1),
                                    SubSeq(its[i], e + 1, Len(its[i]))>>))

\* parse_remappings on the text of the config file (Absent: no such file)
parse_remappings(text) ==
    IF text = Absent THEN Fail(<<"FileNotFoundError">>)
    ELSE LET match == Search(text, 1)
         IN  IF ~match.ok THEN Ok(<<>>)
             ELSE LET es == CleanLines(splitlines(match.val), 1, <<>>)
                  IN  IF es = <<>> THEN Ok(<<>>)
                      ELSE LET lit == literal_eval(Join(es, 1))
                           IN  IF ~lit.ok THEN lit
                               ELSE SplitItems(lit.val, 1, <<>>)

----------------------------------------------------------------------------
(* JSON values in memory, json.dumps, json.loads, sanitize_settings *)

\* A value is a scalar <<"str", s>>, <<"num", s>>, <<"lit", s>> or a reference
\* <<"ref", address>> to an object of the heap; an object is
\* <<"dict", members>> with members a dict of values, or <<"list", values>>.
\* A JSON text is a sequence of tokens: scalars and punctuation <<"p", c>>.

NoRef == <<"ref", 0>>

P(c) == <<"p", c>>

S(x) == <<"str", x>>

IsRef(v) == v[1] = "ref"

RECURSIVE json_dumps(_, _)
RECURSIVE DumpMembers(_, _, _)
RECURSIVE DumpElems(_, _, _)

DumpMembers(h, ms, i) ==
    IF i > Len(ms) THEN <<>>
    ELSE <<S(ms[i][1]), P(":")>> \o json_dumps(h, ms[i][2])
         \o (IF i < Len(ms) THEN <<P(",")>> ELSE <<>>)
         \o DumpMembers(h, ms, i + 1)

DumpElems(h, es, i) ==
    IF i > Len(es) THEN <<>>
    ELSE json_dumps(h, es[i])
         \o (IF i < Len(es) THEN <<P(",")>> ELSE <<>>)
         \o DumpElems(h, es, i + 1)

\* json.dumps(v): the text of the value v of heap h
json_dumps(h, v) ==
    IF ~IsRef(v) THEN <<v>>
    ELSE IF h[v[2]][1] = "dict"
         THEN <<P("{")>> \o DumpMembers(h, h[v[2]][2], 1) \o <<P("}")>>
         ELSE <<P("[")>> \o DumpElems(h, h[v[2]][2], 1) \o <<P("]")>>

RECURSIVE ParseValue(_, _, _)
RECURSIVE ParseMembers(_, _, _, _)
RECURSIVE ParseElems(_, _, _, _)

\* the members of an object from token i on, up to its "}"
ParseMembers(h, toks, i, acc) ==
    IF toks[i] = P("}") THEN [h |-> h, v |-> acc, next |-> i + 1]
    ELSE IF toks[i] = P(",") THEN ParseMembers(h, toks, i + 1, acc)
    ELSE LET r == ParseValue(h, toks, i + 2)
         IN  ParseMembers(r.h, toks, r.next, Put(acc, toks[i][2], r.v))

\* the elements of an array from token i on, up to its "]"
ParseElems(h, toks, i, acc) ==
    IF toks[i] = P("]") THEN [h |-> h, v |-> acc, next |-> i + 1]
    ELSE IF toks[i] = P(",") THEN ParseElems(h, toks, i + 1, acc)
    ELSE LET r == ParseValue(h, toks, i)
         IN  ParseElems(r.h, toks, r.next, Append(acc, r.v))

\* the value that starts at token i: objects and arrays are new heap objects
ParseValue(h, toks, i) ==
    IF toks[i] = P("{")
    THEN LET r == ParseMembers(h, toks, i + 1, <<>>)
         IN  [h |-> Append(r.h, <<"dict", r.v>>),
              v |-> <<"ref", Len(r.h) + 1>>, next |-> r.next]
    ELSE IF toks[i] = P("[")
    THEN LET r == ParseElems(h, toks, i + 1, <<>>)
         IN  [h |-> Append(r.h, <<"list", r.v>>),
              v |-> <<"ref", Len(r.h) + 1>>, next |-> r.next]
    ELSE [h |-> h, v |-> toks[i], next |-> i + 1]

\* json.loads(text) with heap h: the heap with the new objects, and the value
json_loads(h, toks) ==
    LET r == ParseValue(h, toks, 1) IN [h |-> r.h, v |-> r.v]

CompilationTarget == "compilationTarget"

\* d.pop(key, None) on the dict object that v refers to
Pop(h, v, key) ==
    [h EXCEPT ![v[2]] = <<"dict", SelectSeq(h[v[2]][2], LAMBDA m : m[1] # key)>>]

\* dict(d): a new dict object with the members of the one v refers to
ShallowCopy(h, v) ==
    [h |-> Append(h, h[v[2]]), v |-> <<"ref", Len(h) + 1>>]

\* sanitize_settings with a one-level copy in place of the deep copy
sanitize_settings_shallow(h, s) ==
    LET copy == ShallowCopy(h, s)
    IN  [h |-> Pop(copy.h, copy.v, CompilationTarget), v |-> copy.v]

\* sanitize_settings (lines 82-85): the heap after the call, and the result
sanitize_settings(h, s) ==
    LET copy == json_loads(h, json_dumps(h, s))
    IN  [h |-> Pop(copy.h, copy.v, CompilationTarget), v |-> copy.v]

----------------------------------------------------------------------------
(* expand_alias_sources *)

\* the alias key a rule makes of a path that starts with its target
Candidate(rule, path) == rule[1] \o Drop(path, Len(rule[2]))

\* the loop body without the test for an existing key
ExpandItemOverwrite(exp, rule, item) ==
    IF startswith(item[1], rule[2])
    THEN Put(exp, Candidate(rule, item[1]), item[2])
    ELSE exp

\* the loop body with the replaced prefix test
ExpandItemAnywhere(exp, rule, item) ==
    IF startswithAnywhere(item[1], rule[2])
    THEN LET candidate == Candidate(rule, item[1])
         IN  IF ~Has(exp, candidate)
             THEN Put(exp, candidate, item[2])
             ELSE exp
    ELSE exp

\* the loop body that renames the entry instead of duplicating it
ExpandItemMove(exp, rule, item) ==
    IF startswith(item[1], rule[2])
    THEN LET candidate == Candidate(rule, item[1])
         IN  IF ~Has(exp, candidate)
             THEN Put(SelectSeq(exp, LAMBDA e : e[1] # item[1]), candidate, item[2])
             ELSE exp
    ELSE exp

\* the loop body (lines 75-78): rule against one (path, content) item
ExpandItem(exp, rule, item) ==
    IF startswith(item[1], rule[2])
    THEN LET candidate == Candidate(rule, item[1])
         IN  IF ~Has(exp, candidate)
             THEN Put(exp, candidate, item[2])
             ELSE exp
    ELSE exp

\* an inner loop over the items of the growing dict as it stands
IteratedGrowing(srcs, exp) == exp

\* the items the inner loop iterates (line 74): those of the argument
Iterated(srcs, exp) == srcs

\* whether expanded is the very object passed in; dict(sources) makes a new
\* one (line 72)
ExpandedIsArgument == FALSE

RECURSIVE ExpandRule(_, _, _, _)
ExpandRule(its, exp, rule, i) ==
    IF i > Len(its)
    THEN exp
    ELSE ExpandRule(its, ExpandItem(exp, rule, its[i]), rule, i + 1)

RECURSIVE ExpandFrom(_, _, _, _)
ExpandFrom(srcs, exp, rules, r) ==
    IF r > Len(rules)
    THEN exp
    ELSE ExpandFrom(srcs, ExpandRule(Iterated(srcs, exp), exp, rules[r], 1), rules, r + 1)

expand_alias_sources(srcs, rules) == ExpandFrom(srcs, srcs, rules, 1)

ContentKey == <<"c", "o", "n", "t", "e", "n", "t">>

\* {path: {"content": content} for path, content in all_sources.items()}
WrapSources(all_sources) ==
    [i \in 1..Len(all_sources) |->
        <<all_sources[i][1], << <<ContentKey, all_sources[i][2]>> >> >>]

----------------------------------------------------------------------------
(* The expansion, step by step, on the sources read from disk *)

PathSet == { <<"l", "a">>, <<"s", "a">>, <<"x", "a">> }

ContentSet == { <<"1">>, <<"2">> }

RuleSet == { << <<"x">>, <<"l">> >>, << <<"x">>, <<"s">> >>,
             << <<"y">>, <<"x">> >>, << <<"y">>, <<"a">> >>,
             << <<"l">>, <<>> >> }

\* dict keys are pairwise distinct
KeyLists == {k \in SeqsUpTo(PathSet, MaxSources) :
                \A i, j \in 1..Len(k) : k[i] = k[j] => i = j}

\* the files of the listed paths; the run touches no other source file
Disks(keys) ==
    {[p \in PathSet |-> IF \E i \in 1..Len(keys) : keys[i] = p THEN g[p] ELSE Absent] :
        g \in [PathSet -> ContentSet \cup {Absent}]}

RuleLists == SeqsUpTo(RuleSet, MaxRules)

\* the reorderings of a list
Reorderings(a) == {[i \in 1..Len(a) |-> a[f[i]]] : f \in Permutations(1..Len(a))}

InitExpand ==
    /\ pc = "read"
    /\ metaSources \in KeyLists
    /\ disk \in Disks(metaSources)
    /\ remaps \in RuleLists
    /\ remapsP \in Reorderings(remaps)
    /\ sources = <<>>
    /\ items = <<>>
    /\ expanded = <<>>
    /\ expandedP = <<>>
    /\ ri = 1
    /\ si = 1
    /\ wrapped = <<>>
    /\ err = NoError
    /\ config = Absent
    /\ configPlain = Absent
    /\ entries = <<>>
    /\ parsed = NotRun
    /\ parsedPlain = NotRun
    /\ heap = <<>>
    /\ settings = NoRef
    /\ sanitized = NoRef
    /\ settingsBefore = <<>>
    /\ mutations = 0
    /\ artifact = "object"
    /\ settingsText = <<>>
    /\ language = NoLanguage
    /\ output = AbsentFile
    /\ outDir = FALSE
    /\ outputBefore = AbsentFile
    /\ printed = FALSE
    /\ runs = 1
    /\ firstOutput = AbsentFile

\* sources = read_sources(metadata), then the call of expand_alias_sources
\* up to its first loop (lines 90, 72-74)
ReadSources ==
    /\ pc = "read"
    /\ LET r == read_sources(metaSources, disk)
       IN  IF r.ok
           THEN /\ sources' = r.val
                /\ expanded' = r.val
                /\ items' = Iterated(r.val, r.val)
                /\ pc' = "expand"
                /\ err' = NoError
           ELSE /\ pc' = "failed"
                /\ err' = r.err
                /\ UNCHANGED <<sources, expanded, items>>
    /\ UNCHANGED <<disk, metaSources, remaps, remapsP, expandedP, ri, si, wrapped, parseVars, heapVars, mainVars>>

\* one iteration of the inner loop (lines 74-78)
ExpandStep ==
    /\ pc = "expand"
    /\ ri <= Len(remaps)
    /\ si <= Len(items)
    /\ expanded' = ExpandItem(expanded, remaps[ri], items[si])
    /\ sources' = IF ExpandedIsArgument THEN expanded' ELSE sources
    /\ si' = si + 1
    /\ UNCHANGED <<pc, disk, metaSources, remaps, remapsP, items, expandedP, ri,
                   wrapped, err, parseVars, heapVars, mainVars>>

\* the inner loop is exhausted: the outer loop takes the next rule (line 73)
NextRule ==
    /\ pc = "expand"
    /\ ri <= Len(remaps)
    /\ si > Len(items)
    /\ ri' = ri + 1
    /\ si' = 1
    /\ items' = Iterated(sources, expanded)
    /\ UNCHANGED <<pc, disk, metaSources, sources, remaps, remapsP, expanded,
                   expandedP, wrapped, err, parseVars, heapVars, mainVars>>

\* return expanded (line 79)
ExpandReturn ==
    /\ pc = "expand"
    /\ ri > Len(remaps)
    /\ pc' = "expanded"
    /\ UNCHANGED <<disk, metaSources, sources, remaps, remapsP, items, expanded,
                   expandedP, ri, si, wrapped, err, parseVars, heapVars, mainVars>>

\* the same call on the reordered rule list
ExpandPermuted ==
    /\ pc = "expanded"
    /\ expandedP' = expand_alias_sources(sources, remapsP)
    /\ pc' = "permuted"
    /\ UNCHANGED <<disk, metaSources, sources, remaps, remapsP, items, expanded,
                   ri, si, wrapped, err, parseVars, heapVars, mainVars>>

\* the reshaping of the source map in main (line 97)
Wrap ==
    /\ pc = "permuted"
    /\ wrapped' = WrapSources(expanded)
    /\ pc' = "wrapped"
    /\ UNCHANGED <<disk, metaSources, sources, remaps, remapsP, items, expanded,
                   expandedP, ri, si, err, parseVars, heapVars, mainVars>>

NextExpand ==
    ReadSources \/ ExpandStep \/ NextRule \/ ExpandReturn \/ ExpandPermuted \/ Wrap

SpecExpand == InitExpand /\ [][NextExpand]_vars

----------------------------------------------------------------------------
(* Properties of the expansion *)

\* the (rule index, source index) pairs whose alias key is k
Producers(k) ==
    {q \in (1..Len(remaps)) \X (1..Len(sources)) :
        /\ startswith(sources[q[2]][1], remaps[q[1]][2])
        /\ Candidate(remaps[q[1]], sources[q[2]][1]) = k}

\* the producer the loops reach first: least rule index, then least source index
FirstProducer(k) ==
    CHOOSE q \in Producers(k) :
        \A o \in Producers(k) : q[1] < o[1] \/ (q[1] = o[1] /\ q[2] <= o[2])

\* C2: after the expansion, for each rule and each collected path p that
\* starts with the rule's target, the map holds both p and the alias key
\* alias + p[len(target):]; the document maps each of them to the one-field
\* record {content: text}; and the alias entry carries the content of p when
\* no other rule or path and no original path gives the same key.
C2_OriginalAndAliasPresent ==
    pc = "wrapped" =>
        \A r \in 1..Len(remaps), j \in 1..Len(sources) :
            startswith(sources[j][1], remaps[r][2]) =>
                LET p == sources[j][1]
                    cand == remaps[r][1] \o SubSeq(p, Len(remaps[r][2]) + 1, Len(p))
                IN  /\ Has(expanded, p)
                    /\ Has(expanded, cand)
                    /\ Has(wrapped, p)
                    /\ Get(wrapped, p) = << <<ContentKey, Get(expanded, p)>> >>
                    /\ Has(wrapped, cand)
                    /\ Get(wrapped, cand) = << <<ContentKey, Get(expanded, cand)>> >>
                    /\ Len(wrapped) = Len(expanded)
                    /\ ( (/\ ~Has(sources, cand)
                          /\ \A o \in Producers(cand) :
                                remaps[o[1]] = remaps[r] /\ o[2] = j)
                         => Get(expanded, cand) = sources[j][2] )

C2_Witness ==
    /\ pc = "wrapped"
    /\ \E r \in 1..Len(remaps), j \in 1..Len(sources) :
          /\ startswith(sources[j][1], remaps[r][2])
          /\ ~Has(sources, Candidate(remaps[r], sources[j][1]))
          /\ Has(wrapped, Candidate(remaps[r], sources[j][1]))
          /\ Get(expanded, Candidate(remaps[r], sources[j][1])) = sources[j][2]

\* C3: first writer wins.  No step of the expansion changes the content
\* under a key already in the growing map; at the end an original path still
\* has its own content and an alias key has the content of the first
\* (rule, path) pair, in file order, that produced it.
C3_FirstWriterWins ==
    /\ [][pc = "expand" =>
            \A i \in 1..Len(expanded) :
                /\ Has(expanded', expanded[i][1])
                /\ Get(expanded', expanded[i][1]) = expanded[i][2]]_vars
    /\ [](pc = "expanded" =>
            \A i \in 1..Len(expanded) :
                LET k == expanded[i][1]
                IN  IF Has(sources, k)
                    THEN expanded[i][2] = Get(sources, k)
                    ELSE expanded[i][2] = sources[FirstProducer(k)[2]][2])

C3_Witness ==
    /\ pc = "expanded"
    /\ \E k \in Keys(expanded) :
          \E a, b \in Producers(k) :
              /\ a[1] < b[1]
              /\ sources[a[2]][2] # sources[b[2]][2]
              /\ ~Has(sources, k)
              /\ Get(expanded, k) = sources[a[2]][2]

\* C4: content is never invented.  At every state of the expansion, and in
\* the document, the content under a key is the text on disk of a listed
\* path, and the key is that listed path itself or an alias made from it.
C4_ContentNeverInvented ==
    LET real(k, c) ==
            \/ \E j \in 1..Len(metaSources) :
                  /\ metaSources[j] = k
                  /\ disk[k] # Absent
                  /\ c = disk[k]
            \/ \E r \in 1..Len(remaps), j \in 1..Len(metaSources) :
                  /\ startswith(metaSources[j], remaps[r][2])
                  /\ k = remaps[r][1] \o
                           SubSeq(metaSources[j], Len(remaps[r][2]) + 1, Len(metaSources[j]))
                  /\ disk[metaSources[j]] # Absent
                  /\ c = disk[metaSources[j]]
    IN  /\ \A i \in 1..Len(expanded) : real(expanded[i][1], expanded[i][2])
        /\ \A i \in 1..Len(wrapped) :
              /\ Len(wrapped[i][2]) = 1
              /\ real(wrapped[i][1], wrapped[i][2][1][2])

C4_Witness ==
    /\ pc = "wrapped"
    /\ \E i \in 1..Len(wrapped) :
          /\ \A j \in 1..Len(metaSources) : metaSources[j] # wrapped[i][1]
          /\ \E j \in 1..Len(metaSources) : wrapped[i][2][1][2] = disk[metaSources[j]]

\* C5: a rule whose target is a prefix of no path in the source map leaves
\* the map as it is; when that is so for every rule, the expanded map is the
\* input source map.
C5_UnmatchedRuleNoChange ==
    /\ [][(/\ pc = "expand"
           /\ ri <= Len(remaps)
           /\ \A j \in 1..Len(sources) : ~startswith(sources[j][1], remaps[ri][2]))
          => expanded' = expanded]_vars
    /\ [](( /\ pc = "expanded"
            /\ \A r \in 1..Len(remaps), j \in 1..Len(sources) :
                  ~startswith(sources[j][1], remaps[r][2]))
          => expanded = sources)

C5_Witness ==
    /\ pc = "expanded"
    /\ Len(remaps) >= 1
    /\ Len(sources) >= 1
    /\ \A r \in 1..Len(remaps), j \in 1..Len(sources) :
          ~startswith(sources[j][1], remaps[r][2])
    /\ \E r \in 1..Len(remaps), j \in 1..Len(sources) :
          startswithAnywhere(sources[j][1], remaps[r][2])
    /\ expanded = sources

\* C9: aliases do not chain.  Every key of the growing map is an original
\* path or the alias of an original path under some rule, and the source
\* map passed in is never changed by the expansion.
C9_NoChaining ==
    /\ [](\A i \in 1..Len(expanded) :
              Has(sources, expanded[i][1]) \/ Producers(expanded[i][1]) # {})
    /\ [][pc = "expand" => sources' = sources]_vars

C9_Witness ==
    /\ pc = "expanded"
    /\ \E k \in Keys(expanded) :
          /\ ~Has(sources, k)
          /\ \E r \in 1..Len(remaps) :
                /\ FirstProducer(k)[1] < r
                /\ startswith(k, remaps[r][2])
                /\ ~Has(expanded, Candidate(remaps[r], k))

\* C10: the key set of the expanded map does not depend on the order of the
\* rules, nor does the content under an original path; the content under an
\* alias key can differ between two orders only when two different
\* (rule, path) pairs produce that key.
C10_KeySetOrderIndependent ==
    pc \in {"permuted", "wrapped"} =>
        /\ Keys(expandedP) = Keys(expanded)
        /\ Len(expandedP) = Len(expanded)
        /\ \A k \in Keys(sources) :
              Has(expandedP, k) /\ Get(expandedP, k) = Get(expanded, k)
        /\ \A k \in Keys(expanded) \ Keys(sources) :
              Cardinality({<<remaps[q[1]], sources[q[2]][1]>> : q \in Producers(k)}) <= 1
                  => (Has(expandedP, k) /\ Get(expandedP, k) = Get(expanded, k))

C10_Witness ==
    /\ pc = "permuted"
    /\ remapsP # remaps
    /\ Keys(expandedP) = Keys(expanded)
    /\ \E k \in Keys(expanded) \ Keys(sources) :
          Get(expandedP, k) # Get(expanded, k)

----------------------------------------------------------------------------
(* parse_remappings on a block with and without comments and trailing comma *)

MaxEntries == 2

\* "alias=target" strings; the second has two '='
EntrySet == { <<"x", "=", "l">>, <<"y", "=", "s", "=">> }

NoComment == <<"no comment">>

\* what may follow a '#'
CommentSet == { <<"a", ",">>, <<Quote, "=">>, <<"s", "e", "e", " ", "[", "1", "]">> }

Decorations == [pre : CommentSet \cup {NoComment}, post : CommentSet \cup {NoComment}]

\* a table header before the block, as foundry.toml has
Preamble == <<"[", "p", "]", NL, RWord, " ", "=", " ", "[", NL>>

\* one entry on a line of its own, after an optional whole-line comment
DecoratedLine(entry, d, comma) ==
    (IF d.pre = NoComment THEN <<>> ELSE <<" ", "#">> \o d.pre \o <<NL>>)
    \o <<" ", Quote>> \o entry \o <<Quote>>
    \o (IF comma THEN <<",">> ELSE <<>>)
    \o (IF d.post = NoComment THEN <<>> ELSE <<" ", "#", " ">> \o d.post)
    \o <<NL>>

RECURSIVE DecoratedBlock(_, _, _, _)
DecoratedBlock(es, ds, trailing, i) ==
    IF i > Len(es) THEN <<>>
    ELSE DecoratedLine(es[i], ds[i], i < Len(es) \/ trailing)
         \o DecoratedBlock(es, ds, trailing, i + 1)

RECURSIVE PlainBlock(_, _)
PlainBlock(es, i) ==
    IF i > Len(es) THEN <<>>
    ELSE <<" ", Quote>> \o es[i] \o <<Quote>>
         \o (IF i < Len(es) THEN <<",">> ELSE <<>>) \o <<NL>>
         \o PlainBlock(es, i + 1)

InitParse ==
    /\ pc = "parse"
    /\ err = NoError
    /\ entries \in SeqsUpTo(EntrySet, MaxEntries)
    /\ \E ds \in [1..Len(entries) -> Decorations], trailing \in BOOLEAN :
          config = Preamble \o DecoratedBlock(entries, ds, trailing, 1) \o <<"]", NL>>
    /\ configPlain = Preamble \o PlainBlock(entries, 1) \o <<"]", NL>>
    /\ parsed = NotRun
    /\ parsedPlain = NotRun
    /\ heap = <<>>
    /\ settings = NoRef
    /\ sanitized = NoRef
    /\ settingsBefore = <<>>
    /\ mutations = 0
    /\ artifact = "object"
    /\ settingsText = <<>>
    /\ language = NoLanguage
    /\ output = AbsentFile
    /\ outDir = FALSE
    /\ outputBefore = AbsentFile
    /\ printed = FALSE
    /\ runs = 1
    /\ firstOutput = AbsentFile
    /\ disk = [p \in PathSet |-> Absent]
    /\ metaSources = <<>>
    /\ sources = <<>>
    /\ remaps = <<>>
    /\ remapsP = <<>>
    /\ items = <<>>
    /\ expanded = <<>>
    /\ expandedP = <<>>
    /\ ri = 1
    /\ si = 1
    /\ wrapped = <<>>

\* remaps = parse_remappings() on the written config
ParseConfig ==
    /\ pc = "parse"
    /\ parsed' = parse_remappings(config)
    /\ pc' = "parsePlain"
    /\ UNCHANGED <<err, expandVars, heapVars, mainVars, config, configPlain, entries, parsedPlain>>

\* the same call on the block without comments and trailing comma
ParsePlain ==
    /\ pc = "parsePlain"
    /\ parsedPlain' = parse_remappings(configPlain)
    /\ pc' = "parsed"
    /\ UNCHANGED <<err, expandVars, heapVars, mainVars, config, configPlain, entries, parsed>>

NextParse == ParseConfig \/ ParsePlain

SpecParse == InitParse /\ [][NextParse]_vars

\* each entry split at its first '='
RECURSIVE ExpectedPairs(_, _)
ExpectedPairs(es, i) ==
    IF i > Len(es) THEN <<>>
    ELSE LET e == CHOOSE k \in 1..Len(es[i]) :
                     es[i][k] = "=" /\ \A m \in 1..(k - 1) : es[i][m] # "="
         IN  << <<SubSeq(es[i], 1, e - 1), SubSeq(es[i], e + 1, Len(es[i]))>> >>
             \o ExpectedPairs(es, i + 1)

\* C7: a block written one entry per line parses to the same rule sequence
\* with and without '#' comments and a trailing comma: one pair per entry, in
\* file order, none dropped, each split at the first '=' of its entry.
C7_CommentsAndTrailingCommaIgnored ==
    pc = "parsed" =>
        /\ parsed.ok
        /\ parsedPlain.ok
        /\ parsed.val = parsedPlain.val
        /\ parsed.val = ExpectedPairs(entries, 1)

\* what holds of the code: the same, for blocks with no ']' in a comment
C7_HoldsWithoutBracketInComment ==
    (pc = "parsed" /\ Cardinality({i \in 1..Len(config) : config[i] = "]"}) = 2) =>
        /\ parsed.ok
        /\ parsedPlain.ok
        /\ parsed.val = parsedPlain.val
        /\ parsed.val = ExpectedPairs(entries, 1)

----------------------------------------------------------------------------
(* sanitize_settings on loaded settings, and later writes to its result *)

MaxMutations == 2

\* the texts of settings records: each member present or not, in this order
OptimizerTexts ==
    { <<>>,
      <<S("optimizer"), P(":"), P("{"), S("enabled"), P(":"), <<"lit", "true">>, P(","),
        S("runs"), P(":"), <<"num", "200">>, P("}")>>,
      <<S("optimizer"), P(":"), P("{"), S("details"), P(":"), P("{"),
        S(CompilationTarget), P(":"), S("x"), P("}"), P("}")>> }

TargetTexts ==
    { <<>>,
      <<S(CompilationTarget), P(":"), P("{"), S("src/Pool.sol"), P(":"), S("Pool"), P("}")>> }

RemappingsTexts ==
    { <<>>, <<S("remappings"), P(":"), P("["), S("a=b"), P("]")>> }

EvmTexts == { <<>>, <<S("evmVersion"), P(":"), S("paris")>> }

RECURSIVE JoinMembers(_, _)
JoinMembers(ms, i) ==
    IF i > Len(ms) THEN <<>>
    ELSE IF ms[i] = <<>> THEN JoinMembers(ms, i + 1)
    ELSE LET rest == JoinMembers(ms, i + 1)
         IN  ms[i] \o (IF rest = <<>> THEN <<>> ELSE <<P(",")>> \o rest)

SettingsTexts ==
    {<<P("{")>> \o JoinMembers(<<o, t, r, e>>, 1) \o <<P("}")>> :
        o \in OptimizerTexts, t \in TargetTexts, r \in RemappingsTexts, e \in EvmTexts}

\* the value v of heap h as a tree, for comparing values of different objects
RECURSIVE Tree(_, _)
Tree(h, v) ==
    IF ~IsRef(v) THEN v
    ELSE IF h[v[2]][1] = "dict"
         THEN <<"dict", [i \in 1..Len(h[v[2]][2]) |->
                            <<h[v[2]][2][i][1], Tree(h, h[v[2]][2][i][2])>>]>>
         ELSE <<"list", [i \in 1..Len(h[v[2]][2]) |-> Tree(h, h[v[2]][2][i])]>>

\* the addresses of the objects that make up the value v
RECURSIVE Reach(_, _)
Reach(h, v) ==
    IF ~IsRef(v) THEN {}
    ELSE {v[2]} \cup
         UNION {Reach(h, IF h[v[2]][1] = "dict" THEN h[v[2]][2][i][2] ELSE h[v[2]][2][i]) :
                   i \in 1..Len(h[v[2]][2])}

InitSanitize ==
    /\ pc = "sanitize"
    /\ err = NoError
    /\ \E text \in SettingsTexts :
          LET r == json_loads(<<>>, text)
          IN  /\ heap = r.h
              /\ settings = r.v
              /\ settingsBefore = Tree(r.h, r.v)
    /\ sanitized = NoRef
    /\ mutations = 0
    /\ artifact = "object"
    /\ settingsText = <<>>
    /\ language = NoLanguage
    /\ output = AbsentFile
    /\ outDir = FALSE
    /\ outputBefore = AbsentFile
    /\ printed = FALSE
    /\ runs = 1
    /\ firstOutput = AbsentFile
    /\ disk = [p \in PathSet |-> Absent]
    /\ metaSources = <<>>
    /\ sources = <<>>
    /\ remaps = <<>>
    /\ remapsP = <<>>
    /\ items = <<>>
    /\ expanded = <<>>
    /\ expandedP = <<>>
    /\ ri = 1
    /\ si = 1
    /\ wrapped = <<>>
    /\ config = Absent
    /\ configPlain = Absent
    /\ entries = <<>>
    /\ parsed = NotRun
    /\ parsedPlain = NotRun

\* settings = sanitize_settings(metadata["settings"]) (line 93)
Sanitize ==
    /\ pc = "sanitize"
    /\ LET r == sanitize_settings(heap, settings)
       IN  /\ heap' = r.h
           /\ sanitized' = r.v
    /\ pc' = "sanitized"
    /\ UNCHANGED <<err, expandVars, parseVars, mainVars, settings, settingsBefore, mutations>>

NewValue == S("new")

\* a caller writes to the returned copy, at any depth: sets or deletes a
\* member of one of its dicts, appends to or shortens one of its lists
MutateCopy ==
    /\ pc = "sanitized"
    /\ mutations < MaxMutations
    /\ \E a \in Reach(heap, sanitized) :
          IF heap[a][1] = "dict"
          THEN \/ \E k \in Keys(heap[a][2]) \cup {"added"} :
                     heap' = [heap EXCEPT ![a] = <<"dict", Put(heap[a][2], k, NewValue)>>]
               \/ \E k \in Keys(heap[a][2]) :
                     heap' = Pop(heap, <<"ref", a>>, k)
          ELSE \/ heap' = [heap EXCEPT ![a] = <<"list", Append(heap[a][2], NewValue)>>]
               \/ /\ heap[a][2] # <<>>
                  /\ heap' = [heap EXCEPT ![a] =
                                <<"list", SubSeq(heap[a][2], 1, Len(heap[a][2]) - 1)>>]
    /\ mutations' = mutations + 1
    /\ UNCHANGED <<pc, err, expandVars, parseVars, mainVars, settings, sanitized, settingsBefore>>

NextSanitize == Sanitize \/ MutateCopy

SpecSanitize == InitSanitize /\ [][NextSanitize]_vars

\* C6: the result of sanitize_settings(s) equals s with only the top-level
\* member compilationTarget removed: every other member, nested ones of that
\* name included, is kept with an equal value, and when s has no such member
\* the result equals s; s is unchanged by the call, and no later write to the
\* returned copy, at any depth, changes s.
C6_SanitizedEqualsSettingsLessTarget ==
    /\ pc = "sanitized" => Tree(heap, settings) = settingsBefore
    /\ (pc = "sanitized" /\ mutations = 0) =>
          /\ Tree(heap, sanitized)[1] = "dict"
          /\ Tree(heap, sanitized)[2] =
                SelectSeq(settingsBefore[2], LAMBDA m : m[1] # CompilationTarget)
          /\ Reach(heap, sanitized) \cap Reach(heap, settings) = {}

C6_Witness ==
    /\ pc = "sanitized"
    /\ mutations = MaxMutations
    /\ Has(settingsBefore[2], CompilationTarget)
    /\ ~Has(heap[sanitized[2]][2], CompilationTarget)
    /\ \E a \in Reach(heap, sanitized) \ {sanitized[2]} :
          /\ heap[a][1] = "dict"
          /\ Has(heap[a][2], CompilationTarget)
    /\ \E m \in 1..Len(settingsBefore[2]) :
          /\ settingsBefore[2][m][1] = "optimizer"
          /\ Has(heap[sanitized[2]][2], "optimizer")
          /\ Tree(heap, Get(heap[sanitized[2]][2], "optimizer")) # settingsBefore[2][m][2]

----------------------------------------------------------------------------
(* main: load, collect, parse, expand, sanitize, write; and running it again *)

MaxRuns == 2

\* The artifact file: "missing"; "notjson" (not valid JSON); "object"
\* (metadata is a JSON object); "string" (metadata is a JSON-encoded string);
\* "badstring" (metadata is a string that is not valid JSON).
ArtifactKinds == {"missing", "notjson", "object", "string", "badstring"}

Solidity == "Solidity"

\* load_artifact (lines 23-28) on an artifact of the given kind whose
\* metadata holds the settings text: the heap with the settings loaded
load_artifact(kind, text, h) ==
    IF kind = "missing" THEN Fail(<<"FileNotFoundError">>)
    ELSE IF kind \in {"notjson", "badstring"} THEN Fail(<<"JSONDecodeError">>)
    ELSE LET r == json_loads(h, text)
         IN  Ok([language |-> Solidity, h |-> r.h, settings |-> r.v])

\* OUTPUT.write_text(text) keeping a file that is already there
FileAfterWriteKeep(prior, text) ==
    IF prior.exists THEN prior ELSE [exists |-> TRUE, content |-> text]

\* the output file after OUTPUT.write_text(text) (line 102)
FileAfterWrite(prior, text) == [exists |-> TRUE, content |-> text]

\* the standard document and its text (lines 95-99, 102)
Standard(lang, all_sources, h, sett) ==
    [language |-> lang, sources |-> WrapSources(all_sources),
     settings |-> json_dumps(h, sett)]

StaleFile ==
    [exists |-> TRUE,
     content |-> [language |-> "Yul", sources |-> <<>>, settings |-> <<P("{"), P("}")>>]]

NoDecoration == [pre |-> NoComment, post |-> NoComment]

CfgNoBlock == <<"[", "p", "]", NL>>

CfgOne ==
    Preamble \o DecoratedLine(<<"x", "=", "l">>, NoDecoration, TRUE) \o <<"]", NL>>

CfgTwo ==
    Preamble
    \o DecoratedLine(<<"x", "=", "l">>, [pre |-> <<"a", ",">>, post |-> NoComment], TRUE)
    \o DecoratedLine(<<"x", "=", "s">>, [pre |-> NoComment, post |-> <<Quote, "=">>], FALSE)
    \o <<"]", NL>>

\* an entry whose closing quote is missing
CfgUnclosed == Preamble \o <<" ", Quote, "x", "=", "l", ",", NL, "]", NL>>

\* an entry without quotes
CfgBare == Preamble \o <<" ", "x", "=", "l", NL, "]", NL>>

MalformedConfigs == {CfgUnclosed, CfgBare}

MainConfigs == {Absent, CfgNoBlock, CfgOne, CfgTwo} \cup MalformedConfigs

MainSettingsTexts ==
    { <<P("{"), S("optimizer"), P(":"), P("{"), S("enabled"), P(":"), <<"lit", "true">>,
        P("}"), P(","), S(CompilationTarget), P(":"), P("{"), S("src/Pool.sol"), P(":"),
        S("Pool"), P("}"), P("}")>>,
      <<P("{"), S("evmVersion"), P(":"), S("paris"), P("}")>> }

InitMain ==
    /\ pc = "load"
    /\ err = NoError
    /\ artifact \in ArtifactKinds
    /\ settingsText \in MainSettingsTexts
    /\ metaSources \in KeyLists
    /\ disk \in Disks(metaSources)
    /\ config \in MainConfigs
    /\ output \in {AbsentFile, StaleFile}
    /\ outDir = output.exists
    /\ outputBefore = output
    /\ printed = FALSE
    /\ runs = 1
    /\ firstOutput = AbsentFile
    /\ language = NoLanguage
    /\ heap = <<>>
    /\ settings = NoRef
    /\ sanitized = NoRef
    /\ settingsBefore = <<>>
    /\ mutations = 0
    /\ sources = <<>>
    /\ remaps = <<>>
    /\ remapsP = <<>>
    /\ items = <<>>
    /\ expanded = <<>>
    /\ expandedP = <<>>
    /\ ri = 1
    /\ si = 1
    /\ wrapped = <<>>
    /\ configPlain = Absent
    /\ entries = <<>>
    /\ parsed = NotRun
    /\ parsedPlain = NotRun

\* metadata = load_artifact() (line 89)
LoadArtifact ==
    /\ pc = "load"
    /\ LET r == load_artifact(artifact, settingsText, heap)
       IN  IF r.ok
           THEN /\ heap' = r.val.h
                /\ settings' = r.val.settings
                /\ settingsBefore' = Tree(r.val.h, r.val.settings)
                /\ language' = r.val.language
                /\ pc' = "collect"
                /\ err' = NoError
           ELSE /\ pc' = "failed"
                /\ err' = r.err
                /\ UNCHANGED <<heap, settings, settingsBefore, language>>
    /\ UNCHANGED <<expandVars, parseVars, sanitized, mutations, artifact, settingsText,
                   output, outDir, outputBefore, printed, runs, firstOutput>>

\* sources = read_sources(metadata) (line 90)
CollectSources ==
    /\ pc = "collect"
    /\ LET r == read_sources(metaSources, disk)
       IN  IF r.ok
           THEN /\ sources' = r.val
                /\ pc' = "remap"
                /\ err' = NoError
           ELSE /\ pc' = "failed"
                /\ err' = r.err
                /\ UNCHANGED sources
    /\ UNCHANGED <<disk, metaSources, remaps, remapsP, items, expanded, expandedP, ri,
                   si, wrapped, parseVars, heapVars, mainVars>>

\* remaps = parse_remappings() (line 91)
ParseRemappings ==
    /\ pc = "remap"
    /\ parsed' = parse_remappings(config)
    /\ IF parsed'.ok
       THEN /\ remaps' = parsed'.val
            /\ pc' = "expandAll"
            /\ err' = NoError
       ELSE /\ pc' = "failed"
            /\ err' = parsed'.err
            /\ UNCHANGED remaps
    /\ UNCHANGED <<disk, metaSources, sources, remapsP, items, expanded, expandedP, ri,
                   si, wrapped, config, configPlain, entries, parsedPlain, heapVars,
                   mainVars>>

\* all_sources = expand_alias_sources(sources, remaps) (line 92)
ExpandAll ==
    /\ pc = "expandAll"
    /\ expanded' = expand_alias_sources(sources, remaps)
    /\ pc' = "sanitize"
    /\ UNCHANGED <<err, disk, metaSources, sources, remaps, remapsP, items, expandedP,
                   ri, si, wrapped, parseVars, heapVars, mainVars>>

\* the document is built, the directory made, the file written and the
\* message printed (lines 95-103)
WriteOutput ==
    /\ pc = "sanitized"
    /\ wrapped' = WrapSources(expanded)
    /\ outDir' = TRUE
    /\ output' = FileAfterWrite(output, Standard(language, expanded, heap, sanitized))
    /\ printed' = TRUE
    /\ firstOutput' = IF runs = 1 THEN output' ELSE firstOutput
    /\ pc' = "done"
    /\ UNCHANGED <<err, disk, metaSources, sources, remaps, remapsP, items, expanded,
                   expandedP, ri, si, parseVars, heapVars, artifact, settingsText,
                   language, outputBefore, runs>>

\* the script is run again on the same artifact, config and source files; by
\* then the output file may have been removed or replaced
RunAgain ==
    /\ pc = "done"
    /\ runs < MaxRuns
    /\ runs' = runs + 1
    /\ output' \in {output, AbsentFile, StaleFile}
    /\ outputBefore' = output'
    /\ printed' = FALSE
    /\ pc' = "load"
    /\ err' = NoError
    /\ language' = NoLanguage
    /\ heap' = <<>>
    /\ settings' = NoRef
    /\ sanitized' = NoRef
    /\ settingsBefore' = <<>>
    /\ sources' = <<>>
    /\ remaps' = <<>>
    /\ expanded' = <<>>
    /\ wrapped' = <<>>
    /\ parsed' = NotRun
    /\ UNCHANGED <<disk, metaSources, remapsP, items, expandedP, ri, si, config,
                   configPlain, entries, parsedPlain, mutations, artifact, settingsText,
                   outDir, firstOutput>>

NextMain ==
    \/ LoadArtifact
    \/ CollectSources
    \/ ParseRemappings
    \/ ExpandAll
    \/ Sanitize
    \/ WriteOutput
    \/ RunAgain

SpecMain == InitMain /\ [][NextMain]_vars

\* a condition of the input files under which main cannot succeed
Fatal ==
    \/ artifact \in {"missing", "notjson", "badstring"}
    \/ \E i \in 1..Len(metaSources) : disk[metaSources[i]] = Absent
    \/ config = Absent
    \/ config \in MalformedConfigs

\* C1: under a fatal condition (artifact missing or not valid JSON, a listed
\* source with no file, config missing, remappings block no valid literal)
\* the run does not succeed, and a failed run leaves the output file as it was
\* before the run and prints no success message; for a missing source the
\* error names the path.  The output is written and the message printed only
\* once all five stages have succeeded.
C1_FatalLeavesOutputUntouched ==
    /\ Fatal => pc \notin {"sanitized", "done"}
    /\ pc = "failed" => Fatal
    /\ pc # "done" => (output = outputBefore /\ ~printed)
    /\ ( /\ pc = "failed"
         /\ artifact \in {"object", "string"}
         /\ \E i \in 1..Len(metaSources) : disk[metaSources[i]] = Absent )
       => /\ err[1] = "FileNotFoundError"
          /\ Len(err) = 3
          /\ \E i \in 1..Len(metaSources) :
                /\ err[3] = metaSources[i]
                /\ disk[metaSources[i]] = Absent
                /\ \A j \in 1..(i - 1) : disk[metaSources[j]] # Absent

C1_Witness ==
    /\ pc = "failed"
    /\ Len(err) = 3
    /\ Len(metaSources) >= 2
    /\ err[3] = metaSources[2]
    /\ output = StaleFile
    /\ config \in MalformedConfigs

\* C8: running again is idempotent.  Whatever the output file holds when a
\* run starts (nothing, a stale document, the result of an earlier run), a
\* successful run leaves it equal to the document of the first run; and no
\* step changes the artifact, the config or a source file.
C8_RerunIdempotent ==
    /\ []((pc = "done" /\ runs >= 2) => (output = firstOutput /\ output.exists))
    /\ [][<<artifact, settingsText, metaSources, disk, config>>'
            = <<artifact, settingsText, metaSources, disk, config>>]_vars

C8_Witness ==
    /\ pc = "done"
    /\ runs = 2
    /\ outputBefore # firstOutput
    /\ output = firstOutput
    /\ Len(output.content.sources) > Len(metaSources)
    /\ Len(metaSources) >= 1

====
